---- MODULE Spec2Model ----
(***************************************************************************)
(* Model of terraform-provider-hetznerrobot: the firewall resource         *)
(* (resource_firewall.go, client_firewall.go) and the vSwitch resource.    *)
(* Every handler is one atomic action: a handler runs synchronously, one   *)
(* at a time per resource.  SpecFirewall runs one create or update of a    *)
(* firewall, then its read and delete; SpecVSwitch runs one update of an   *)
(* existing vSwitch.                                                       *)
(***************************************************************************)
EXTENDS Integers, Sequences, FiniteSets, TLC

(* ------------------------------ bounds --------------------------------- *)
\* longest declared firewall rule list
MaxRules == 2
\* longest vSwitch member list, in the state and in the configuration
MaxMembers == 3

\* the longest declared member list whose update is applied a second time
MaxRetryMembers == 1
\* longest list of expected status codes handed to makeAPICall
MaxExpected == 2
\* longest authorized_keys list of a boot block
MaxKeys == 2

(* --------------------------- firewall: data ---------------------------- *)
\* the optional string attributes of a rule block (resourceFirewall schema)
OptionalFields == {"src_ip", "dst_ip", "src_port", "dst_port", "protocol", "tcp_flags"}

\* which optional attributes a declared rule fills in: none, each one alone, all
FieldPatterns == {{}, OptionalFields} \cup {{f} : f \in OptionalFields}

ServerIPs == {"192.0.2.1", "192.0.2.2"}

NameOf(fs) ==
    IF fs = {} THEN ""
    ELSE IF fs = OptionalFields THEN "all"
    ELSE CHOOSE f \in fs : TRUE

ValueOf(ipv, f) ==
    CASE f = "src_ip"    -> IF ipv = "ipv6" THEN "2001:db8::/32" ELSE "10.0.0.0/8"
      [] f = "dst_ip"    -> IF ipv = "ipv6" THEN "2001:db8:1::/48" ELSE "192.0.2.0/24"
      [] f = "src_port"  -> "1024-65535"
      [] f = "dst_port"  -> "443"
      [] f = "protocol"  -> "tcp"
      [] f = "tcp_flags" -> "syn"

\* one "rule" block as d.Get("rule") hands it to the handlers
DeclaredRule(ipv, fs) ==
    [name       |-> NameOf(fs),
     src_ip     |-> IF "src_ip" \in fs THEN ValueOf(ipv, "src_ip") ELSE "",
     dst_ip     |-> IF "dst_ip" \in fs THEN ValueOf(ipv, "dst_ip") ELSE "",
     src_port   |-> IF "src_port" \in fs THEN ValueOf(ipv, "src_port") ELSE "",
     dst_port   |-> IF "dst_port" \in fs THEN ValueOf(ipv, "dst_port") ELSE "",
     protocol   |-> IF "protocol" \in fs THEN ValueOf(ipv, "protocol") ELSE "",
     tcp_flags  |-> IF "tcp_flags" \in fs THEN ValueOf(ipv, "tcp_flags") ELSE "",
     action     |-> IF Cardinality(fs) = 1 THEN "accept" ELSE "discard",
     ip_version |-> ipv]

\* ipv4 rules in every pattern; ipv6 rules with and without the address attributes
RuleUniverse ==
    {DeclaredRule("ipv4", fs) : fs \in FieldPatterns}
        \cup {DeclaredRule("ipv6", fs) : fs \in {{}, {"src_ip"}, {"dst_ip"}, OptionalFields}}

RuleLists == UNION {[1..n -> RuleUniverse] : n \in 0..MaxRules}

\* the attributes of one hetznerrobot_firewall block (resourceFirewall schema)
FirewallConfigs ==
    [server_ip : ServerIPs, active : BOOLEAN, whitelist_hos : BOOLEAN, rule : RuleLists]

NoConfig == [server_ip |-> "", active |-> FALSE, whitelist_hos |-> FALSE, rule |-> << >>]

\* HetznerRobotFirewallRule
HetznerRobotFirewallRule(name, srcIP, srcPort, dstIP, dstPort, protocol, tcpFlags, action, ipVersion) ==
    [Name |-> name, SrcIP |-> srcIP, SrcPort |-> srcPort, DstIP |-> dstIP,
     DstPort |-> dstPort, Protocol |-> protocol, TCPFlags |-> tcpFlags,
     Action |-> action, IPVersion |-> ipVersion]

\* HetznerRobotFirewall
HetznerRobotFirewall(ip, whitelist, status, rules) ==
    [IP |-> ip, WhitelistHetznerServices |-> whitelist, Status |-> status, Rules |-> rules]

NoFirewall == HetznerRobotFirewall("", FALSE, "", << >>)

\* the firewall a server has before anything is submitted to it
DefaultFirewall(ip) == HetznerRobotFirewall(ip, FALSE, "disabled", << >>)

\* diag.Diagnostic: a warning names the rule and the ignored field, an error the call
Diagnostic(severity, rule, field) == [Severity |-> severity, Rule |-> rule, Field |-> field]

(* -------------------------- firewall: encoding ------------------------- *)
\* fmt.Sprintf("rules[%s][%d][%s]", grp, idx, field); top-level keys use grp "top"
Key(grp, idx, field) == [grp |-> grp, idx |-> idx, field |-> field]

EmptyValues == [k \in {} |-> ""]

\* url.Values.Set
DataSet(data, key, val) ==
    [k \in DOMAIN data \cup {key} |-> IF k = key THEN val ELSE data[k]]

DataSetIf(cond, data, key, val) == IF cond THEN DataSet(data, key, val) ELSE data

\* encodeRule without the ipv6 test around the address fields
encodeRule_AddressesForAllVersions(data, idx, rule) ==
    LET ipVersion == IF rule.IPVersion = "" THEN "ipv4" ELSE rule.IPVersion
        d1 == DataSet(data, Key("input", idx, "name"), rule.Name)
        d2 == DataSet(d1, Key("input", idx, "ip_version"), ipVersion)
        d3 == DataSet(d2, Key("input", idx, "action"), rule.Action)
        d4 == DataSet(d3, Key("input", idx, "src_ip"), rule.SrcIP)
        d5 == DataSetIf(rule.DstIP # "", d4, Key("input", idx, "dst_ip"), rule.DstIP)
        d6 == DataSet(d5, Key("input", idx, "dst_port"), rule.DstPort)
        d7 == DataSetIf(rule.SrcPort # "", d6, Key("input", idx, "src_port"), rule.SrcPort)
        d8 == DataSetIf(rule.Protocol # "", d7, Key("input", idx, "protocol"), rule.Protocol)
        d9 == DataSetIf(rule.TCPFlags # "", d8, Key("input", idx, "tcp_flags"), rule.TCPFlags)
    IN  d9

\* the body of the loop of setFirewall for the rule at 0-based index idx
encodeRule(data, idx, rule) ==
    LET ipVersion == IF rule.IPVersion = "" THEN "ipv4" ELSE rule.IPVersion
        d1 == DataSet(data, Key("input", idx, "name"), rule.Name)
        d2 == DataSet(d1, Key("input", idx, "ip_version"), ipVersion)
        d3 == DataSet(d2, Key("input", idx, "action"), rule.Action)
        d4 == DataSetIf(ipVersion # "ipv6", d3, Key("input", idx, "src_ip"), rule.SrcIP)
        d5 == DataSetIf(ipVersion # "ipv6" /\ rule.DstIP # "", d4,
                        Key("input", idx, "dst_ip"), rule.DstIP)
        d6 == DataSet(d5, Key("input", idx, "dst_port"), rule.DstPort)
        d7 == DataSetIf(rule.SrcPort # "", d6, Key("input", idx, "src_port"), rule.SrcPort)
        d8 == DataSetIf(rule.Protocol # "", d7, Key("input", idx, "protocol"), rule.Protocol)
        d9 == DataSetIf(rule.TCPFlags # "", d8, Key("input", idx, "tcp_flags"), rule.TCPFlags)
    IN  d9

RECURSIVE encodeRules_IndexFromOne(_, _, _)
\* encodeRules numbering the rule groups from 1
encodeRules_IndexFromOne(data, rules, idx) ==
    IF idx >= Len(rules) THEN data
    ELSE encodeRules_IndexFromOne(encodeRule(data, idx + 1, rules[idx + 1]), rules, idx + 1)

RECURSIVE encodeRules(_, _, _)
\* for idx, rule := range firewall.Rules.Input, from 0-based idx on
encodeRules(data, rules, idx) ==
    IF idx >= Len(rules) THEN data
    ELSE encodeRules(encodeRule(data, idx, rules[idx + 1]), rules, idx + 1)

\* the form data setFirewall posts
\* setFirewall with whitelistHOS never switched to "true"
setFirewallData_WhitelistAlwaysFalse(firewall) ==
    LET d1 == DataSet(EmptyValues, Key("top", 0, "whitelist_hos"), "false")
        d2 == DataSet(d1, Key("top", 0, "status"), firewall.Status)
        d3 == encodeRules(d2, firewall.Rules, 0)
        d4 == DataSet(d3, Key("output", 0, "name"), "Allow all")
        d5 == DataSet(d4, Key("output", 0, "action"), "accept")
    IN  d5

\* setFirewall: the url.Values it encodes as the request body
setFirewallData(firewall) ==
    LET whitelistHOS == IF firewall.WhitelistHetznerServices THEN "true" ELSE "false"
        d1 == DataSet(EmptyValues, Key("top", 0, "whitelist_hos"), whitelistHOS)
        d2 == DataSet(d1, Key("top", 0, "status"), firewall.Status)
        d3 == encodeRules(d2, firewall.Rules, 0)
        d4 == DataSet(d3, Key("output", 0, "name"), "Allow all")
        d5 == DataSet(d4, Key("output", 0, "action"), "accept")
    IN  d5

\* the request setFirewall hands to makeAPICall
setFirewallRequest(firewall) ==
    [method |-> "POST", ip |-> firewall.IP, data |-> setFirewallData(firewall)]

\* the request getFirewall hands to makeAPICall
getFirewallRequest(ip) == [method |-> "GET", ip |-> ip, data |-> EmptyValues]

(* ----------------------- firewall: resource handlers ------------------- *)
\* resourceFirewallCreate: the HetznerRobotFirewallRule appended for one rule block
createRule(ruleProperties) ==
    LET ipVersion == IF ruleProperties.ip_version # "" THEN ruleProperties.ip_version
                     ELSE "ipv4"
    IN  HetznerRobotFirewallRule(ruleProperties.name, ruleProperties.src_ip,
            ruleProperties.src_port, ruleProperties.dst_ip, ruleProperties.dst_port,
            ruleProperties.protocol, ruleProperties.tcp_flags, ruleProperties.action,
            ipVersion)

\* createWarnings without the warning for dst_ip
createWarnings_SrcOnly(ruleProperties) ==
    LET ipVersion == IF ruleProperties.ip_version # "" THEN ruleProperties.ip_version
                     ELSE "ipv4"
    IN  IF ipVersion = "ipv6" /\ ruleProperties.src_ip # ""
        THEN << Diagnostic("warning", ruleProperties.name, "src_ip") >> ELSE << >>

\* resourceFirewallCreate: the warnings appended for one rule block
createWarnings(ruleProperties) ==
    LET ipVersion == IF ruleProperties.ip_version # "" THEN ruleProperties.ip_version
                     ELSE "ipv4"
        src == IF ipVersion = "ipv6" /\ ruleProperties.src_ip # ""
               THEN << Diagnostic("warning", ruleProperties.name, "src_ip") >> ELSE << >>
        dst == IF ipVersion = "ipv6" /\ ruleProperties.dst_ip # ""
               THEN << Diagnostic("warning", ruleProperties.name, "dst_ip") >> ELSE << >>
    IN  src \o dst

\* resourceFirewallUpdate sending the rule without its ports
updateRule_WithoutPorts(ruleProperties) ==
    LET ipVersion == IF ruleProperties.ip_version # "" THEN ruleProperties.ip_version
                     ELSE "ipv4"
    IN  HetznerRobotFirewallRule(ruleProperties.name, ruleProperties.src_ip,
            "", ruleProperties.dst_ip, "",
            ruleProperties.protocol, ruleProperties.tcp_flags, ruleProperties.action,
            ipVersion)

\* resourceFirewallUpdate: the HetznerRobotFirewallRule appended for one rule block
updateRule(ruleProperties) ==
    LET ipVersion == IF ruleProperties.ip_version # "" THEN ruleProperties.ip_version
                     ELSE "ipv4"
    IN  HetznerRobotFirewallRule(ruleProperties.name, ruleProperties.src_ip,
            ruleProperties.src_port, ruleProperties.dst_ip, ruleProperties.dst_port,
            ruleProperties.protocol, ruleProperties.tcp_flags, ruleProperties.action,
            ipVersion)

\* resourceFirewallUpdate: the warnings appended for one rule block
updateWarnings(ruleProperties) ==
    LET ipVersion == IF ruleProperties.ip_version # "" THEN ruleProperties.ip_version
                     ELSE "ipv4"
        src == IF ipVersion = "ipv6" /\ ruleProperties.src_ip # ""
               THEN << Diagnostic("warning", ruleProperties.name, "src_ip") >> ELSE << >>
        dst == IF ipVersion = "ipv6" /\ ruleProperties.dst_ip # ""
               THEN << Diagnostic("warning", ruleProperties.name, "dst_ip") >> ELSE << >>
    IN  src \o dst

RECURSIVE Flatten(_)
\* append-in-order of the per-block diagnostics
Flatten(seqs) == IF seqs = << >> THEN << >> ELSE Head(seqs) \o Flatten(Tail(seqs))

(* --------------------------- firewall: remote -------------------------- *)
\* a remote that stores what is posted: the firewall it then reports for ip
RemoteStore(ip, data) ==
    LET n == Cardinality({k \in DOMAIN data : k.grp = "input" /\ k.field = "name"})
        val(i, f) == IF Key("input", i, f) \in DOMAIN data
                     THEN data[Key("input", i, f)] ELSE ""
    IN  HetznerRobotFirewall(ip, data[Key("top", 0, "whitelist_hos")] = "true",
            data[Key("top", 0, "status")],
            [i \in 1..n |-> HetznerRobotFirewallRule(val(i - 1, "name"),
                val(i - 1, "src_ip"), val(i - 1, "src_port"), val(i - 1, "dst_ip"),
                val(i - 1, "dst_port"), val(i - 1, "protocol"), val(i - 1, "tcp_flags"),
                val(i - 1, "action"), val(i - 1, "ip_version"))])

(* ---------------------------- vSwitch: data ---------------------------- *)
ServerNumbers == {1, 2, 3, 4}

\* name and VLAN of a hetznerrobot_vswitch block
VSwitchSettings == {[name |-> "lan", vlan |-> 4000], [name |-> "dmz", vlan |-> 4001]}

\* one element of the "servers" attribute; only server_number is caller-supplied
Member(n, ip, net, status) ==
    [server_number |-> n, server_ip |-> ip, server_ipv6_net |-> net, status |-> status]

\* the address and the IPv6 net the remote reports for a server
AddressOf == << "10.0.0.1", "10.0.0.2", "10.0.0.3", "10.0.0.4" >>

Ipv6NetOf == << "2001:db8:1::/64", "2001:db8:2::/64", "2001:db8:3::/64", "2001:db8:4::/64" >>

\* a member as the remote reports it
RemoteMember(n) == Member(n, AddressOf[n], Ipv6NetOf[n], "ready")

\* HetznerRobotVSwitchServer{ServerNumber: n}
HetznerRobotVSwitchServer(n) ==
    [ServerNumber |-> n, ServerIP |-> "", ServerIPv6Net |-> "", Status |-> ""]

\* lists of server numbers: any, and without repetition
NumberLists == UNION {[1..n -> ServerNumbers] : n \in 0..MaxMembers}

IsInjective(s) == \A i, j \in DOMAIN s : s[i] = s[j] => i = j

UniqueNumberLists == {s \in NumberLists : IsInjective(s)}

\* the planned "servers" value: the declared numbers; a Computed sub-attribute keeps
\* the prior value of its index and is empty at an index the prior list lacks
plannedServers(old, numbers) ==
    [i \in 1..Len(numbers) |->
        IF i <= Len(old)
        THEN Member(numbers[i], old[i].server_ip, old[i].server_ipv6_net, old[i].status)
        ELSE Member(numbers[i], "", "", "")]

(* ------------------------- vSwitch: membership diff -------------------- *)
\* mb / ma: the set of server numbers of a list
numberSet(servers) == {servers[i].server_number : i \in DOMAIN servers}

RECURSIVE absentFrom_Reversed(_, _)
\* absentFrom putting each found server in front of the ones found before it
absentFrom_Reversed(servers, m) ==
    IF servers = << >> THEN << >>
    ELSE absentFrom_Reversed(Tail(servers), m)
         \o (IF Head(servers).server_number \notin m
             THEN << HetznerRobotVSwitchServer(Head(servers).server_number) >>
             ELSE << >>)

RECURSIVE absentFrom(_, _)
\* for _, x := range servers: append HetznerRobotVSwitchServer when not found in m
absentFrom(servers, m) ==
    IF servers = << >> THEN << >>
    ELSE (IF Head(servers).server_number \notin m
          THEN << HetznerRobotVSwitchServer(Head(servers).server_number) >>
          ELSE << >>) \o absentFrom(Tail(servers), m)

\* serversToRemove with the test inverted: the old members the new list has
serversToRemove_Found(oldServers, newServers) ==
    absentFrom(oldServers, numberSet(oldServers) \ numberSet(newServers))

serversToRemove(oldServers, newServers) == absentFrom(oldServers, numberSet(newServers))

\* serversToAdd looking for the whole element of the new list in the old list
serversToAdd_ByElement(oldServers, newServers) ==
    LET kept == SelectSeq(newServers, LAMBDA m : \A i \in DOMAIN oldServers : oldServers[i] # m)
    IN  [i \in DOMAIN kept |-> HetznerRobotVSwitchServer(kept[i].server_number)]

\* serversToAdd leaving out the last member the old list lacks
serversToAdd_WithoutLast(oldServers, newServers) ==
    LET all == absentFrom(newServers, numberSet(oldServers))
    IN  IF all = << >> THEN all ELSE SubSeq(all, 1, Len(all) - 1)

serversToAdd(oldServers, newServers) == absentFrom(newServers, numberSet(oldServers))

(* ---------------------------- vSwitch: remote -------------------------- *)
\* the member list after a remove call that succeeded
RemoteRemove(servers, toRemove) ==
    SelectSeq(servers, LAMBDA m :
        \A i \in DOMAIN toRemove : toRemove[i].ServerNumber # m.server_number)

RECURSIVE RemoteAdd(_, _)
\* the member list after an add call that succeeded
RemoteAdd(servers, toAdd) ==
    IF toAdd = << >> THEN servers
    ELSE RemoteAdd(IF Head(toAdd).ServerNumber \in numberSet(servers) THEN servers
                   ELSE Append(servers, RemoteMember(Head(toAdd).ServerNumber)),
                   Tail(toAdd))

\* membershipCalls with the add call issued first
membershipCalls_AddFirst(remCall, addCall, remOk) == << addCall, remCall >>

\* membershipCalls returning from the handler when the remove call fails
membershipCalls_StopOnRemoveError(remCall, addCall, remOk) ==
    IF remOk THEN << remCall, addCall >> ELSE << remCall >>

\* the client calls of the membership reconciliation, in the order the handler
\* issues them: an error of the remove call does not return from the handler
membershipCalls(remCall, addCall, remOk) == << remCall, addCall >>

\* the name/VLAN call issued only when the name or the VLAN changed
settingsCalls_OnlyWhenChanged(updCall, changed) == IF changed THEN << updCall >> ELSE << >>

\* resourceVSwitchUpdate: c.updateVSwitch is called first, under no condition
settingsCalls(updCall, changed) == << updCall >>

\* an update that goes on after a failed name/VLAN call
updateFailed_Ignored(updOk) == FALSE

\* resourceVSwitchUpdate: err != nil after c.updateVSwitch returns from the handler
updateFailed(updOk) == ~updOk

\* the membership reconciliation run in every update
hasChange_Always(oldServers, newServers) == TRUE

\* d.HasChange("servers")
hasChange(oldServers, newServers) == oldServers # newServers

\* resourceVSwitchCreate adding the declared servers after the create call
createCalls_AddsMembers(createCall, addCall) == << createCall, addCall >>

\* resourceVSwitchCreate: c.createVSwitch(ctx, name, vlan) and no other call
createCalls(createCall, addCall) == << createCall >>

\* one call of a client method, as the handler issues it
Call(op, settings, servers) == [op |-> op, settings |-> settings, servers |-> servers]

NoSettings == [name |-> "", vlan |-> 0]

(* ------------------------------- state --------------------------------- *)
VARIABLES
    fwPc,          \* where the firewall resource is in its lifecycle
    fwId,          \* d.Id() of the firewall resource
    fwConfig,      \* the configuration the last create/update was called with
    fwState,       \* the attributes the handlers left in d
    fwSubmitted,   \* the HetznerRobotFirewall last handed to setFirewall
    fwCalls,       \* the requests of the last handler, in order
    fwFailed,      \* the client calls of the last handler that returned an error
    fwDiags,       \* the diagnostics the last handler returned
    fwRemote,      \* the firewall the remote holds per server address
    vsPc,          \* where the vSwitch resource is in its lifecycle
    vsId,          \* d.Id() of the vSwitch resource
    vsOld,         \* the "servers" attribute before the last update
    vsConfig,      \* the configuration the last update was called with
    vsState,       \* the attributes the handlers left in d
    vsCalls,       \* the client calls of the last handler, in order
    vsFailed,      \* the client calls of the last handler that returned an error
    vsDiags,       \* the diagnostics the last handler returned
    vsRemote,      \* the vSwitch the remote holds
    apPc,          \* where the provider is: configure, then one makeAPICall
    apConfig,      \* the provider block: username, password, url
    apDiags,       \* the diagnostics providerConfigure returned
    apClient,      \* the HetznerRobotClient providerConfigure returned, or nil
    apInput,       \* method, uri, data and expectedStatusCodes of the call
    apTransport,   \* what the transport and the server do with the request
    apSent,        \* the requests handed to c.client.Do, in order
    apResult,      \* what makeAPICall returned: body and error
    rdPc,          \* where the one read handler is: before it or after it
    rdKind,        \* which read handler runs: the vSwitch resource's or the server data source's
    rdId,          \* d.Id() of the resource or data source
    rdState,       \* the attributes in d, by declared key
    rdRemote,      \* the object the remote reports
    rdWritten,     \* the keys the handler handed to d.Set, in order
    rdFailed,      \* the client calls of the handler that returned an error
    rdDiags,       \* the diagnostics the handler returned
    btPc,          \* where the boot resource is in its lifecycle
    btId,          \* d.Id() of the boot resource
    btConfig,      \* the declared boot block
    btCalls,       \* the client calls of the last handler, in order
    btFailed,      \* the client calls of the last handler that returned an error
    btState,       \* the computed attributes the handler set
    btDiags        \* the diagnostics the last handler returned

fwVars == << fwPc, fwId, fwConfig, fwState, fwSubmitted, fwCalls, fwFailed, fwDiags, fwRemote >>

vsVars == << vsPc, vsId, vsOld, vsConfig, vsState, vsCalls, vsFailed, vsDiags, vsRemote >>

apVars == << apPc, apConfig, apDiags, apClient, apInput, apTransport, apSent, apResult >>

rdVars == << rdPc, rdKind, rdId, rdState, rdRemote, rdWritten, rdFailed, rdDiags >>

btVars == << btPc, btId, btConfig, btCalls, btFailed, btState, btDiags >>

vars == << fwVars, vsVars, apVars, rdVars, btVars >>

HasError(diags) == \E i \in 1..Len(diags) : diags[i].Severity = "error"

(* ------------------------------- client -------------------------------- *)
\* the status codes the test servers of client_test.go answer with
StatusCodes == {200, 201, 202, 401, 404, 500}

\* the expectedStatusCodes lists: any list of success codes, the empty one too
ExpectedLists == UNION {[1..n -> {200, 201, 202}] : n \in 0..MaxExpected}

Credentials ==
    {[username |-> "user", password |-> "pass"],
     [username |-> "wronguser", password |-> "wrongpass"]}

\* a uri http.NewRequestWithContext accepts and one it rejects
URIs == {"https://robot-ws.your-server.de/test", "https://robot-ws.your-server.de/%zz"}

ParsesAsURL(uri) == uri = "https://robot-ws.your-server.de/test"

\* url.Values handed as data: nil, or a form
NilData == "nil"

FormData == "key1=value1&key2=value2"

\* url.Values{} : not nil, and encoded the empty string
EmptyForm == ""

\* the values of the provider block: each attribute set, or left empty
ProviderConfigs ==
    [username : {""} \cup {c.username : c \in Credentials},
     password : {""} \cup {c.password : c \in Credentials},
     url      : {"https://robot-ws.your-server.de", "https://custom-robot-api.example.com"}]

\* the nil client an unconfigured provider has
NilClient == [username |-> "", password |-> "", url |-> ""]

\* NewHetznerRobotClient
NewHetznerRobotClient(username, password, url) ==
    [username |-> username, password |-> password, url |-> url]

\* providerConfigure checking the password before the username
configure_PasswordFirst(config) ==
    IF config.password = ""
    THEN [client |-> NilClient,
          diags |-> << Diagnostic("error", "",
                          "password is required for Hetzner Robot authentication") >>]
    ELSE IF config.username = ""
    THEN [client |-> NilClient,
          diags |-> << Diagnostic("error", "",
                          "username is required for Hetzner Robot authentication") >>]
    ELSE [client |-> NewHetznerRobotClient(config.username, config.password, config.url),
          diags |-> << >>]

\* providerConfigure: what it returns for the values of the provider block
configure(config) ==
    IF config.username = ""
    THEN [client |-> NilClient,
          diags |-> << Diagnostic("error", "",
                          "username is required for Hetzner Robot authentication") >>]
    ELSE IF config.password = ""
    THEN [client |-> NilClient,
          diags |-> << Diagnostic("error", "",
                          "password is required for Hetzner Robot authentication") >>]
    ELSE [client |-> NewHetznerRobotClient(config.username, config.password, config.url),
          diags |-> << >>]

\* an error value; NoError is the nil error
APIError(text, code, detail) == [text |-> text, code |-> code, detail |-> detail]

NoError == APIError("", 0, "")

NoBody == ""

\* the body a test server writes with a status code
ResponseBody(statusCode) == IF statusCode = 401 THEN "Unauthorized" ELSE "response"

\* codeIsInExpected looking at the first expected code only
codeIsInExpected_FirstOnly(statusCode, expectedStatusCodes) ==
    expectedStatusCodes # << >> /\ expectedStatusCodes[1] = statusCode

\* slices.Contains(expectedStatusCodes, statusCode)
codeIsInExpected(statusCode, expectedStatusCodes) ==
    \E i \in DOMAIN expectedStatusCodes : expectedStatusCodes[i] = statusCode

\* makeAPICall setting the form content type for every POST
Request_FormTypeForPost(client, method, uri, data) ==
    [method      |-> method,
     uri         |-> uri,
     contentType |-> IF method = "POST" THEN "application/x-www-form-urlencoded" ELSE "",
     username    |-> client.username,
     password    |-> client.password,
     body        |-> IF data # NilData THEN data ELSE ""]

\* the request makeAPICall builds: Content-Type only with data, basic auth always
Request(client, method, uri, data) ==
    [method      |-> method,
     uri         |-> uri,
     contentType |-> IF data # NilData THEN "application/x-www-form-urlencoded" ELSE "",
     username    |-> client.username,
     password    |-> client.password,
     body        |-> IF data # NilData THEN data ELSE ""]

\* no makeAPICall is modelled: the client's variables stay where they are
ClientIdle ==
    /\ apPc = "none"
    /\ apConfig = [username |-> "", password |-> "", url |-> ""]
    /\ apDiags = << >>
    /\ apClient = NilClient
    /\ apInput = [method |-> "", uri |-> "", data |-> NilData, expectedStatusCodes |-> << >>]
    /\ apTransport = [sendOk |-> TRUE, readOk |-> TRUE, statusCode |-> 200]
    /\ apSent = << >>
    /\ apResult = [body |-> NoBody, err |-> NoError]

(* ---------------------------- read handlers ---------------------------- *)
\* the keys of the hetznerrobot_vswitch resource schema
VSwitchSchema == {"name", "vlan", "is_canceled", "servers", "subnets", "cloud_networks"}

\* the keys of the hetznerrobot_server data source schema
ServerSchema ==
    {"server_number", "server_name", "server_ip", "server_ipv6", "datacenter", "is_canceled",
     "paid_until", "product", "ip_addresses", "server_subnets", "status", "traffic",
     "linked_storagebox", "reset", "rescue", "vnc", "windows", "plesk", "cpanel", "wol",
     "hot_swap"}

\* strconv.Itoa for the server numbers
Itoa(n) == << "1", "2", "3", "4" >>[n]

\* one d.Set(key, value)
Write(key, value) == [key |-> key, value |-> value]

\* d.Set: the attributes after it, and whether it returned an error; a key the
\* schema does not declare is an error and sets nothing
Set(state, key, value) ==
    IF key \in DOMAIN state
    THEN [state |-> [state EXCEPT ![key] = value], err |-> FALSE]
    ELSE [state |-> state, err |-> TRUE]

RECURSIVE SetAllIgnoringErrors(_, _)
\* _ = d.Set(...) for each write in order
SetAllIgnoringErrors(state, writes) ==
    IF writes = << >> THEN state
    ELSE SetAllIgnoringErrors(Set(state, Head(writes).key, Head(writes).value).state,
                              Tail(writes))

RECURSIVE SetAllOrReturn(_, _, _)
\* if err := d.Set(...); err != nil { return diag.FromErr(err) } for each write
\* in order: the attributes, the keys handed to d.Set, and the key that failed
SetAllOrReturn(state, writes, written) ==
    IF writes = << >> THEN [state |-> state, written |-> written, failed |-> ""]
    ELSE LET set == Set(state, Head(writes).key, Head(writes).value)
         IN  IF set.err
             THEN [state |-> set.state, written |-> Append(written, Head(writes).key),
                   failed |-> Head(writes).key]
             ELSE SetAllOrReturn(set.state, Tail(writes), Append(written, Head(writes).key))

\* resourceVSwitchRead: its d.Set calls in order
vSwitchReadWrites(vSwitch) ==
    << Write("name", vSwitch.Name), Write("vlan", vSwitch.Vlan),
       Write("canceled", vSwitch.Canceled), Write("servers", vSwitch.Server),
       Write("subnets", vSwitch.Subnet), Write("cloud_networks", vSwitch.CloudNetwork) >>

\* dataSourceServerRead: its d.Set calls in order
serverReadWrites(server) ==
    << Write("datacenter", server.DataCenter), Write("is_canceled", server.Canceled),
       Write("paid_until", server.PaidUntil), Write("product", server.Product),
       Write("server_ip_addresses", server.IPs), Write("server_ip", server.ServerIP),
       Write("server_ip_v6_net", server.ServerIPv6), Write("server_name", server.ServerName),
       Write("server_subnets", server.Subnets), Write("status", server.Status),
       Write("traffic", server.Traffic) >>

\* the vSwitches the remote may report
RemoteVSwitches ==
    {[Name |-> settings.name, Vlan |-> settings.vlan, Canceled |-> canceled,
      Server |-> [i \in DOMAIN numbers |-> RemoteMember(numbers[i])],
      Subnet |-> << >>, CloudNetwork |-> << >>] :
        settings \in VSwitchSettings, canceled \in BOOLEAN, numbers \in UniqueNumberLists}

\* the servers the remote may report
RemoteServers ==
    {[ServerNumber |-> n, ServerName |-> name, ServerIP |-> AddressOf[n],
      ServerIPv6 |-> Ipv6NetOf[n], DataCenter |-> dc, Canceled |-> canceled,
      PaidUntil |-> "2026-12-31", Product |-> "AX41", IPs |-> << AddressOf[n] >>,
      Subnets |-> << >>, Status |-> status, Traffic |-> "unlimited"] :
        n \in ServerNumbers, name \in {"", "web"}, dc \in {"FSN1-DC1", "HEL1-DC2"},
        canceled \in BOOLEAN, status \in {"ready", "in process"}}

\* the attributes of a vSwitch resource as the create handler left them
VSwitchAttributes ==
    [key \in VSwitchSchema |->
        CASE key = "name" -> "lan"
          [] key = "vlan" -> 4000
          [] key = "is_canceled" -> FALSE
          [] OTHER -> << >>]

\* the attributes of a server data source before its read: server_number from
\* the configuration, the computed ones unset
ServerAttributes(n) ==
    [key \in ServerSchema |-> IF key = "server_number" THEN n ELSE "unset"]

\* no read handler is modelled
ReadIdle ==
    /\ rdPc = "none"
    /\ rdKind = ""
    /\ rdId = ""
    /\ rdState = << >>
    /\ rdRemote = << >>
    /\ rdWritten = << >>
    /\ rdFailed = {}
    /\ rdDiags = << >>

(* --------------------------------- boot -------------------------------- *)
KeyLists == UNION {[1..n -> {"aa:bb", "cc:dd"}] : n \in 0..MaxKeys}

\* the declared hetznerrobot_boot blocks
BootConfigs ==
    [server_id : ServerNumbers, active_profile : {"linux", "rescue"},
     architecture : {"64"}, operating_system : {"", "Debian-1210"},
     language : {"en"}, authorized_keys : KeyLists]

NoBootConfig ==
    [server_id |-> 0, active_profile |-> "", architecture |-> "", operating_system |-> "",
     language |-> "", authorized_keys |-> << >>]

NoBootState == [ipv4_address |-> "", ipv6_network |-> "", password |-> ""]

\* c.setBootProfile(ctx, serverID, activeBootProfile, arch, os, lang, authorizedKeys)
setBootProfileCall(serverID, config) ==
    [op |-> "setBootProfile", serverID |-> serverID, profile |-> config.active_profile,
     arch |-> config.architecture, os |-> config.operating_system,
     lang |-> config.language, keys |-> config.authorized_keys]

\* the boot profile the remote returns for a server
BootProfile(n) == [ServerIPv4 |-> AddressOf[n], ServerIPv6 |-> Ipv6NetOf[n], Password |-> "secret"]

\* the boot profile returned for a serverID that names no server
NoBootProfile == [ServerIPv4 |-> "", ServerIPv6 |-> "", Password |-> ""]

\* no boot resource is modelled
BootIdle ==
    /\ btPc = "none"
    /\ btId = ""
    /\ btConfig = NoBootConfig
    /\ btCalls = << >>
    /\ btFailed = {}
    /\ btState = NoBootState
    /\ btDiags = << >>

(* --------------------------- firewall: actions ------------------------- *)
\* no vSwitch resource is managed
VSwitchIdle ==
    /\ vsPc = "none"
    /\ vsId = ""
    /\ vsRemote = [name |-> "", vlan |-> 0, servers |-> << >>]
    /\ vsState = vsRemote
    /\ vsOld = << >>
    /\ vsConfig = [name |-> "", vlan |-> 0, servers |-> << >>]
    /\ vsCalls = << >>
    /\ vsFailed = {}
    /\ vsDiags = << >>

\* the state of a firewall resource that was applied and read before
PriorConfig ==
    [server_ip |-> "192.0.2.1", active |-> TRUE, whitelist_hos |-> FALSE,
     rule |-> << DeclaredRule("ipv4", OptionalFields), DeclaredRule("ipv4", {"dst_port"}) >>]

\* the firewall the remote holds for PriorConfig
PriorFirewall ==
    HetznerRobotFirewall(PriorConfig.server_ip, PriorConfig.whitelist_hos, "active",
        [i \in 1..Len(PriorConfig.rule) |-> createRule(PriorConfig.rule[i])])

\* a firewall resource before its create (no identity), or one that exists
\* (identity, state and remote firewall of PriorConfig) before an update
InitFirewall ==
    /\ fwPc = "idle"
    /\ \/ /\ fwId = ""
          /\ fwState = NoConfig
          /\ fwRemote = [ip \in ServerIPs |-> DefaultFirewall(ip)]
       \/ /\ fwId = PriorConfig.server_ip
          /\ fwState = PriorConfig
          /\ fwRemote = [ip \in ServerIPs |->
                           IF ip = PriorConfig.server_ip THEN PriorFirewall
                           ELSE DefaultFirewall(ip)]
    /\ fwConfig = NoConfig
    /\ fwSubmitted = NoFirewall
    /\ fwCalls = << >>
    /\ fwFailed = {}
    /\ fwDiags = << >>
    /\ VSwitchIdle
    /\ ClientIdle
    /\ ReadIdle
    /\ BootIdle

\* no firewall resource is managed
FirewallIdle ==
    /\ fwPc = "none"
    /\ fwId = ""
    /\ fwConfig = NoConfig
    /\ fwState = NoConfig
    /\ fwSubmitted = NoFirewall
    /\ fwCalls = << >>
    /\ fwFailed = {}
    /\ fwDiags = << >>
    /\ fwRemote = [ip \in ServerIPs |-> DefaultFirewall(ip)]

\* c.setFirewall(ctx, firewall): one POST; a remote that accepts it stores it
setFirewall(firewall, ok) ==
    /\ fwSubmitted' = firewall
    /\ fwCalls' = << setFirewallRequest(firewall) >>
    /\ fwFailed' = IF ok THEN {} ELSE {"setFirewall"}
    /\ fwRemote' = IF ok
                   THEN [fwRemote EXCEPT ![firewall.IP] =
                            RemoteStore(firewall.IP, setFirewallData(firewall))]
                   ELSE fwRemote

\* resourceFirewallCreate without d.SetId
createId_Unset(id, serverIP, ok) == id

\* resourceFirewallCreate calling d.SetId before it looks at the error
createId_BeforeApply(id, serverIP, ok) == serverIP

\* the identity resourceFirewallCreate leaves: d.SetId(serverIP) after setFirewall
\* returned no error, the identity it found otherwise
createId(id, serverIP, ok) == IF ok THEN serverIP ELSE id

resourceFirewallCreate ==
    /\ fwPc = "idle"
    /\ fwId = ""
    /\ \E config \in FirewallConfigs, ok \in BOOLEAN :
          LET serverIP == config.server_ip
              status   == IF config.active THEN "active" ELSE "disabled"
              diags    == Flatten([i \in 1..Len(config.rule) |-> createWarnings(config.rule[i])])
              rules    == [i \in 1..Len(config.rule) |-> createRule(config.rule[i])]
          IN  /\ fwConfig' = config
              /\ fwState' = config
              /\ setFirewall(HetznerRobotFirewall(serverIP, config.whitelist_hos, status, rules), ok)
              /\ fwId' = createId(fwId, serverIP, ok)
              /\ fwDiags' = IF ok THEN diags ELSE << Diagnostic("error", "", "setFirewall") >>
    /\ fwPc' = "created"

resourceFirewallUpdate ==
    /\ fwPc = "idle"
    /\ fwId # ""
    /\ \E config \in FirewallConfigs, ok \in BOOLEAN :
          LET serverIP == config.server_ip
              status   == IF config.active THEN "active" ELSE "disabled"
              diags    == Flatten([i \in 1..Len(config.rule) |-> updateWarnings(config.rule[i])])
              rules    == [i \in 1..Len(config.rule) |-> updateRule(config.rule[i])]
          IN  \* Terraform calls the update only for a configuration that differs
              /\ config # fwState
              /\ fwConfig' = config
              /\ fwState' = config
              /\ setFirewall(HetznerRobotFirewall(serverIP, config.whitelist_hos, status, rules), ok)
              /\ fwId' = fwId
              /\ fwDiags' = IF ok THEN diags ELSE << Diagnostic("error", "", "setFirewall") >>
    /\ fwPc' = "updated"

\* resourceFirewallRead reporting every fetched firewall as active
readAttributes_AlwaysActive(firewall) ==
    [server_ip     |-> firewall.IP,
     active        |-> TRUE,
     whitelist_hos |-> firewall.WhitelistHetznerServices,
     rule          |-> [i \in 1..Len(firewall.Rules) |->
                          [name       |-> firewall.Rules[i].Name,
                           src_ip     |-> firewall.Rules[i].SrcIP,
                           src_port   |-> firewall.Rules[i].SrcPort,
                           dst_ip     |-> firewall.Rules[i].DstIP,
                           dst_port   |-> firewall.Rules[i].DstPort,
                           protocol   |-> firewall.Rules[i].Protocol,
                           tcp_flags  |-> firewall.Rules[i].TCPFlags,
                           action     |-> firewall.Rules[i].Action,
                           ip_version |-> firewall.Rules[i].IPVersion]]]

\* the attributes resourceFirewallRead sets from the fetched firewall
readAttributes(firewall) ==
    [server_ip     |-> firewall.IP,
     active        |-> (firewall.Status = "active"),
     whitelist_hos |-> firewall.WhitelistHetznerServices,
     rule          |-> [i \in 1..Len(firewall.Rules) |->
                          [name       |-> firewall.Rules[i].Name,
                           src_ip     |-> firewall.Rules[i].SrcIP,
                           src_port   |-> firewall.Rules[i].SrcPort,
                           dst_ip     |-> firewall.Rules[i].DstIP,
                           dst_port   |-> firewall.Rules[i].DstPort,
                           protocol   |-> firewall.Rules[i].Protocol,
                           tcp_flags  |-> firewall.Rules[i].TCPFlags,
                           action     |-> firewall.Rules[i].Action,
                           ip_version |-> firewall.Rules[i].IPVersion]]]

\* resourceFirewallRead, after a create or update that succeeded and again
\* after the remote firewall was changed behind the provider
resourceFirewallRead ==
    /\ fwPc \in {"created", "updated", "changed"}
    /\ ~HasError(fwDiags)
    /\ fwId \in ServerIPs
    /\ \E ok \in BOOLEAN :
          /\ fwCalls' = << getFirewallRequest(fwId) >>
          /\ fwFailed' = IF ok THEN {} ELSE {"getFirewall"}
          /\ IF ok
             THEN /\ fwState' = readAttributes(fwRemote[fwId])
                  /\ fwDiags' = << >>
             ELSE /\ fwState' = fwState
                  /\ fwDiags' = << Diagnostic("error", "", "getFirewall") >>
    /\ fwPc' = IF fwPc = "changed" THEN "reread" ELSE "read"
    /\ UNCHANGED << fwId, fwConfig, fwSubmitted, fwRemote >>

\* the firewall of a server after someone else switched it and added a rule
ChangedFirewall(firewall) ==
    [firewall EXCEPT
        !.Status = IF firewall.Status = "active" THEN "disabled" ELSE "active",
        !.Rules = Append(firewall.Rules,
                         HetznerRobotFirewallRule("other", "", "", "", "22", "tcp", "",
                                                  "accept", "ipv4"))]

\* the remote firewall of the managed server changes behind the provider
RemoteChange ==
    /\ fwPc = "read"
    /\ ~HasError(fwDiags)
    /\ fwRemote' = [fwRemote EXCEPT ![fwId] = ChangedFirewall(fwRemote[fwId])]
    /\ fwPc' = "changed"
    /\ UNCHANGED << fwId, fwConfig, fwState, fwSubmitted, fwCalls, fwFailed, fwDiags >>

\* a delete that switches the remote firewall back to its default
resourceFirewallDelete_ResetsRemote ==
    /\ fwPc \in {"created", "updated", "read"}
    /\ fwId \in ServerIPs
    /\ fwPc' = "deleted"
    /\ fwCalls' = << setFirewallRequest(DefaultFirewall(fwId)) >>
    /\ fwFailed' = {}
    /\ fwDiags' = << >>
    /\ fwRemote' = [fwRemote EXCEPT ![fwId] = DefaultFirewall(fwId)]
    /\ UNCHANGED << fwId, fwConfig, fwState, fwSubmitted >>

\* resourceFirewallDelete: returns nil without a call
resourceFirewallDelete ==
    /\ fwPc \in {"created", "updated", "read"}
    /\ fwId # ""
    /\ fwPc' = "deleted"
    /\ fwCalls' = << >>
    /\ fwFailed' = {}
    /\ fwDiags' = << >>
    /\ UNCHANGED << fwId, fwConfig, fwState, fwSubmitted, fwRemote >>

NextFirewall ==
    \/ resourceFirewallCreate /\ UNCHANGED << vsVars, apVars, rdVars, btVars >>
    \/ resourceFirewallUpdate /\ UNCHANGED << vsVars, apVars, rdVars, btVars >>
    \/ resourceFirewallRead /\ UNCHANGED << vsVars, apVars, rdVars, btVars >>
    \/ RemoteChange /\ UNCHANGED << vsVars, apVars, rdVars, btVars >>
    \/ resourceFirewallDelete /\ UNCHANGED << vsVars, apVars, rdVars, btVars >>

(* ---------------------------- vSwitch: actions ------------------------- *)
\* a vSwitch that exists, its state as the last read left it
\* the identifier the remote gave the vSwitch
VSwitchID == "4321"

\* no vSwitch: what state and remote hold before a create
NoVSwitch == [name |-> "", vlan |-> 0, servers |-> << >>]

\* a vSwitch resource that exists, with its members, before an update, or one
\* that is declared and not yet created
InitVSwitch ==
    /\ \/ /\ vsPc = "idle"
          /\ vsId = VSwitchID
          /\ \E numbers \in UniqueNumberLists :
                /\ vsRemote = [name |-> "lan", vlan |-> 4000,
                               servers |-> [i \in 1..Len(numbers) |-> RemoteMember(numbers[i])]]
                /\ vsState = vsRemote
       \/ /\ vsPc = "new"
          /\ vsId = ""
          /\ vsRemote = NoVSwitch
          /\ vsState = NoVSwitch
    /\ vsOld = << >>
    /\ vsConfig = [name |-> "", vlan |-> 0, servers |-> << >>]
    /\ vsCalls = << >>
    /\ vsFailed = {}
    /\ vsDiags = << >>
    /\ FirewallIdle
    /\ ClientIdle
    /\ ReadIdle
    /\ BootIdle

\* resourceVSwitchRead as the tail of the update: one getVSwitch, then d.Set
vSwitchReadResult(remote, planned, readOk) ==
    [state |-> IF readOk THEN remote ELSE planned,
     diags |-> IF readOk THEN << >> ELSE << Diagnostic("error", "", "getVSwitch") >>]

\* resourceVSwitchCreate: one createVSwitch with name and vlan; the attributes
\* are set from the vSwitch the remote returns, a new one without members
resourceVSwitchCreate ==
    /\ vsPc = "new"
    /\ \E settings \in VSwitchSettings, numbers \in NumberLists, createOk \in BOOLEAN :
          LET planned    == [name |-> settings.name, vlan |-> settings.vlan,
                             servers |-> plannedServers(<< >>, numbers)]
              createCall == Call("createVSwitch", settings, << >>)
              addCall    == Call("addVSwitchServers", NoSettings,
                                 [i \in DOMAIN numbers |-> HetznerRobotVSwitchServer(numbers[i])])
              issued     == createCalls(createCall, addCall)
              vSwitch    == [name |-> settings.name, vlan |-> settings.vlan,
                             servers |-> IF Len(issued) > 1
                                         THEN RemoteAdd(<< >>, addCall.servers) ELSE << >>]
          IN  /\ vsOld' = << >>
              /\ vsConfig' = planned
              /\ vsCalls' = IF createOk THEN issued ELSE << createCall >>
              /\ IF createOk
                 THEN /\ vsFailed' = {}
                      /\ vsDiags' = << >>
                      /\ vsRemote' = vSwitch
                      /\ vsState' = [planned EXCEPT !.servers = vSwitch.servers]
                      /\ vsId' = VSwitchID
                 ELSE /\ vsFailed' = {"createVSwitch"}
                      /\ vsDiags' = << Diagnostic("error", "", "createVSwitch") >>
                      /\ vsRemote' = vsRemote
                      /\ vsState' = vsState
                      /\ vsId' = vsId
    /\ vsPc' = "created"

\* resourceVSwitchUpdate for one planned configuration and one outcome of each
\* client call
vSwitchUpdate(settings, numbers, updOk, remOk, addOk, readOk) ==
    LET oldServers == vsState.servers
        newServers == plannedServers(oldServers, numbers)
        planned    == [name |-> settings.name, vlan |-> settings.vlan,
                       servers |-> newServers]
        changed    == hasChange(oldServers, newServers)
        toRemove   == serversToRemove(oldServers, newServers)
        toAdd      == serversToAdd(oldServers, newServers)
        updCall    == Call("updateVSwitch", settings, << >>)
        remCall    == Call("removeVSwitchServers", NoSettings, toRemove)
        addCall    == Call("addVSwitchServers", NoSettings, toAdd)
        getCall    == Call("getVSwitch", NoSettings, << >>)
        renamed    == settings.name # vsState.name \/ settings.vlan # vsState.vlan
        named      == IF updOk
                      THEN [vsRemote EXCEPT !.name = settings.name, !.vlan = settings.vlan]
                      ELSE vsRemote
        removed    == IF remOk THEN RemoteRemove(named.servers, toRemove)
                      ELSE named.servers
        added      == IF addOk THEN RemoteAdd(removed, toAdd) ELSE removed
        remote     == IF changed THEN [named EXCEPT !.servers = added] ELSE named
        read       == vSwitchReadResult(remote, planned, readOk)
    IN  \* Terraform calls the update only for a configuration that differs
        /\ planned # vsState
        /\ vsOld' = oldServers
        /\ vsConfig' = planned
        /\ vsId' = vsId
        /\ IF updateFailed(updOk)
           THEN /\ vsCalls' = settingsCalls(updCall, renamed)
                /\ vsFailed' = {"updateVSwitch"}
                /\ vsDiags' = << Diagnostic("error", "", "updateVSwitch") >>
                /\ vsState' = planned
                /\ vsRemote' = vsRemote
           ELSE /\ vsCalls' = settingsCalls(updCall, renamed)
                                  \o (IF changed
                                      THEN membershipCalls(remCall, addCall, remOk)
                                      ELSE << >>)
                                  \o << getCall >>
                /\ vsFailed' = (IF ~updOk THEN {"updateVSwitch"} ELSE {})
                               \cup (IF changed /\ ~remOk THEN {"removeVSwitchServers"} ELSE {})
                               \cup (IF changed /\ ~addOk THEN {"addVSwitchServers"} ELSE {})
                               \cup (IF ~readOk THEN {"getVSwitch"} ELSE {})
                \* the diag.Errorf values of the remove and the add branch are discarded
                /\ vsDiags' = read.diags
                /\ vsState' = read.state
                /\ vsRemote' = remote

resourceVSwitchUpdate ==
    /\ vsPc = "idle"
    /\ \E settings \in VSwitchSettings, numbers \in NumberLists,
          updOk \in BOOLEAN, remOk \in BOOLEAN, addOk \in BOOLEAN, readOk \in BOOLEAN :
          vSwitchUpdate(settings, numbers, updOk, remOk, addOk, readOk)
    /\ vsPc' = "updated"

\* the next apply of the same configuration after an update whose remove or
\* add call failed and whose read succeeded: resourceVSwitchUpdate once more
resourceVSwitchUpdateAgain ==
    /\ vsPc = "updated"
    /\ vsFailed \cap {"removeVSwitchServers", "addVSwitchServers"} # {}
    /\ vsFailed \cap {"updateVSwitch", "getVSwitch"} = {}
    /\ Len(vsConfig.servers) <= MaxRetryMembers
    /\ \E updOk \in BOOLEAN, remOk \in BOOLEAN, addOk \in BOOLEAN, readOk \in BOOLEAN :
          vSwitchUpdate([name |-> vsConfig.name, vlan |-> vsConfig.vlan],
                        [i \in DOMAIN vsConfig.servers |-> vsConfig.servers[i].server_number],
                        updOk, remOk, addOk, readOk)
    /\ vsPc' = "updated again"

NextVSwitch ==
    \/ resourceVSwitchCreate /\ UNCHANGED << fwVars, apVars, rdVars, btVars >>
    \/ resourceVSwitchUpdate /\ UNCHANGED << fwVars, apVars, rdVars, btVars >>
    \/ resourceVSwitchUpdateAgain /\ UNCHANGED << fwVars, apVars, rdVars, btVars >>

(* ---------------------------- client: actions -------------------------- *)
\* a provider block before providerConfigure runs
InitClient ==
    /\ apPc = "configure"
    /\ apConfig \in ProviderConfigs
    /\ apDiags = << >>
    /\ apClient = NilClient
    /\ apInput = [method |-> "", uri |-> "", data |-> NilData, expectedStatusCodes |-> << >>]
    /\ apTransport = [sendOk |-> TRUE, readOk |-> TRUE, statusCode |-> 200]
    /\ apSent = << >>
    /\ apResult = [body |-> NoBody, err |-> NoError]
    /\ FirewallIdle
    /\ VSwitchIdle
    /\ ReadIdle
    /\ BootIdle

providerConfigure ==
    /\ apPc = "configure"
    /\ apClient' = configure(apConfig).client
    /\ apDiags' = configure(apConfig).diags
    /\ apPc' = "idle"
    /\ UNCHANGED << apConfig, apInput, apTransport, apSent, apResult >>

\* one call of makeAPICall on the configured client: its arguments, and what
\* the transport and the server do with the request
makeAPICall ==
    /\ apPc = "idle"
    /\ ~HasError(apDiags)
    /\ \E input \in [method : {"GET", "POST"}, uri : URIs,
                     data : {NilData, FormData, EmptyForm},
                     expectedStatusCodes : ExpectedLists],
          transport \in [sendOk : BOOLEAN, readOk : BOOLEAN, statusCode : StatusCodes] :
          LET request == Request(apClient, input.method, input.uri, input.data)
              code    == transport.statusCode
          IN  /\ apInput' = input
              /\ apTransport' = transport
              /\ IF ~ParsesAsURL(input.uri)
                 THEN \* http.NewRequestWithContext failed: nothing is sent
                      /\ apSent' = << >>
                      /\ apResult' = [body |-> NoBody,
                                      err |-> APIError("parse", 0, input.uri)]
                 ELSE /\ apSent' = << request >>
                      /\ apResult' =
                           IF ~transport.sendOk
                           THEN [body |-> NoBody,
                                 err |-> APIError("error sending request", 0, "transport")]
                           ELSE IF ~transport.readOk
                           THEN [body |-> NoBody, err |-> APIError("unexpected EOF", 0, "")]
                           ELSE IF ~codeIsInExpected(code, input.expectedStatusCodes)
                           THEN [body |-> NoBody,
                                 err |-> APIError("hetzner webservice response status", code,
                                                  ResponseBody(code))]
                           ELSE [body |-> ResponseBody(code), err |-> NoError]
    /\ apPc' = "returned"
    /\ UNCHANGED << apConfig, apDiags, apClient >>

NextClient ==
    \/ providerConfigure /\ UNCHANGED << fwVars, vsVars, rdVars, btVars >>
    \/ makeAPICall /\ UNCHANGED << fwVars, vsVars, rdVars, btVars >>

(* ------------------------- read handlers: actions ---------------------- *)
\* a vSwitch resource that was created, or a server data source with its
\* configuration, before its read; the remote holds any vSwitch or server
InitRead ==
    /\ rdPc = "idle"
    /\ \/ /\ rdKind = "vswitch"
          /\ rdId = VSwitchID
          /\ rdState = VSwitchAttributes
          /\ rdRemote \in RemoteVSwitches
       \/ /\ rdKind = "server"
          /\ rdId = ""
          /\ rdRemote \in RemoteServers
          /\ rdState = ServerAttributes(rdRemote.ServerNumber)
    /\ rdWritten = << >>
    /\ rdFailed = {}
    /\ rdDiags = << >>
    /\ FirewallIdle
    /\ VSwitchIdle
    /\ ClientIdle
    /\ BootIdle

resourceVSwitchRead ==
    /\ rdPc = "idle"
    /\ rdKind = "vswitch"
    /\ \E ok \in BOOLEAN :
          IF ok
          THEN /\ rdState' = SetAllIgnoringErrors(rdState, vSwitchReadWrites(rdRemote))
               /\ rdWritten' = [i \in DOMAIN vSwitchReadWrites(rdRemote) |->
                                   vSwitchReadWrites(rdRemote)[i].key]
               /\ rdFailed' = {}
               /\ rdDiags' = << >>
          ELSE /\ rdFailed' = {"getVSwitch"}
               /\ rdDiags' = << Diagnostic("error", "", "getVSwitch") >>
               /\ UNCHANGED << rdState, rdWritten >>
    /\ rdPc' = "read"
    /\ UNCHANGED << rdKind, rdId, rdRemote >>

dataSourceServerRead ==
    /\ rdPc = "idle"
    /\ rdKind = "server"
    /\ \E ok \in BOOLEAN :
          IF ok
          THEN LET set == SetAllOrReturn(rdState, serverReadWrites(rdRemote), << >>)
               IN  /\ rdState' = set.state
                   /\ rdWritten' = set.written
                   /\ rdFailed' = {}
                   /\ IF set.failed # ""
                      THEN /\ rdDiags' = << Diagnostic("error", "", set.failed) >>
                           /\ rdId' = rdId
                      ELSE /\ rdDiags' = << >>
                           /\ rdId' = Itoa(rdRemote.ServerNumber)
          ELSE /\ rdFailed' = {"getServer"}
               /\ rdDiags' = << Diagnostic("error", "", "getServer") >>
               /\ UNCHANGED << rdState, rdWritten, rdId >>
    /\ rdPc' = "read"
    /\ UNCHANGED << rdKind, rdRemote >>

NextRead ==
    \/ resourceVSwitchRead /\ UNCHANGED << fwVars, vsVars, apVars, btVars >>
    \/ dataSourceServerRead /\ UNCHANGED << fwVars, vsVars, apVars, btVars >>

(* ----------------------------- boot: actions --------------------------- *)
\* a declared boot resource that has no identity yet
InitBoot ==
    /\ btPc = "new"
    /\ btId = ""
    /\ btConfig \in BootConfigs
    /\ btCalls = << >>
    /\ btFailed = {}
    /\ btState = NoBootState
    /\ btDiags = << >>
    /\ FirewallIdle
    /\ VSwitchIdle
    /\ ClientIdle
    /\ ReadIdle

\* resourceBootCreate: serverID is d.Id() and is the identity it sets again
resourceBootCreate ==
    /\ btPc = "new"
    /\ \E ok \in BOOLEAN :
          LET serverID    == btId
              bootProfile == IF \E n \in ServerNumbers : Itoa(n) = serverID
                             THEN BootProfile(CHOOSE n \in ServerNumbers : Itoa(n) = serverID)
                             ELSE NoBootProfile
          IN  /\ btCalls' = << setBootProfileCall(serverID, btConfig) >>
              /\ IF ok
                 THEN /\ btFailed' = {}
                      /\ btState' = [ipv4_address |-> bootProfile.ServerIPv4,
                                     ipv6_network |-> bootProfile.ServerIPv6,
                                     password     |-> bootProfile.Password]
                      /\ btId' = serverID
                      /\ btDiags' = << >>
                 ELSE /\ btFailed' = {"setBootProfile"}
                      /\ btState' = btState
                      /\ btId' = btId
                      /\ btDiags' = << Diagnostic("error", "", "setBootProfile") >>
    /\ btPc' = "created"
    /\ btConfig' = btConfig

NextBoot ==
    \/ resourceBootCreate /\ UNCHANGED << fwVars, vsVars, apVars, rdVars >>

(* ---------------------------- specifications --------------------------- *)
SpecFirewall == InitFirewall /\ [][NextFirewall]_vars

SpecVSwitch == InitVSwitch /\ [][NextVSwitch]_vars

SpecClient == InitClient /\ [][NextClient]_vars

SpecRead == InitRead /\ [][NextRead]_vars

SpecBoot == InitBoot /\ [][NextBoot]_vars

(* ================================ claims =============================== *)
(* ------------------------------- firewall ------------------------------ *)
\* a create or an update has just run: fwCalls holds its one POST
FwApplied == fwPc \in {"created", "updated"}

FwPayload == fwCalls[1].data

FwRuleCount == Len(fwConfig.rule)

\* C1: for every create or update and every declared rule whose ip_version is
\* ipv6, the submitted payload has neither a src_ip nor a dst_ip key at that
\* rule's index, whatever addresses the rule declares.
C1_Ipv6AddressesNeverSent ==
    FwApplied =>
        \A i \in 1..FwRuleCount :
            fwConfig.rule[i].ip_version = "ipv6" =>
                /\ Key("input", i - 1, "src_ip") \notin DOMAIN FwPayload
                /\ Key("input", i - 1, "dst_ip") \notin DOMAIN FwPayload

C1_Witness ==
    /\ FwApplied
    /\ \E i \in 1..FwRuleCount :
          /\ fwConfig.rule[i].ip_version = "ipv6"
          /\ fwConfig.rule[i].src_ip # ""
          /\ fwConfig.rule[i].dst_ip # ""
          /\ Key("input", i - 1, "dst_port") \in DOMAIN FwPayload

\* C7: a rule set of N rules is encoded as input groups with exactly the
\* indices 0..N-1 and exactly one output group, index 0, name "Allow all",
\* action "accept", also when N = 0.
C7_GroupsContiguousPlusOutput ==
    FwApplied =>
        /\ {k.idx : k \in {k \in DOMAIN FwPayload : k.grp = "input"}} = 0..(FwRuleCount - 1)
        /\ {k \in DOMAIN FwPayload : k.grp = "output"}
              = {Key("output", 0, "name"), Key("output", 0, "action")}
        /\ FwPayload[Key("output", 0, "name")] = "Allow all"
        /\ FwPayload[Key("output", 0, "action")] = "accept"

C7_Witness ==
    /\ FwApplied
    /\ FwRuleCount = 2
    /\ Key("input", 1, "name") \in DOMAIN FwPayload
    /\ Key("output", 0, "name") \in DOMAIN FwPayload

\* C8 (as claimed): every rule group has name, ip_version and action, and an
\* optional field is in the payload only with a non-empty value.
C8_OptionalFieldsOnlyWhenNonEmpty ==
    FwApplied =>
        \A i \in 1..FwRuleCount :
            /\ \A f \in {"name", "ip_version", "action"} :
                  Key("input", i - 1, f) \in DOMAIN FwPayload
            /\ \A f \in OptionalFields :
                  Key("input", i - 1, f) \in DOMAIN FwPayload =>
                      /\ fwConfig.rule[i][f] # ""
                      /\ FwPayload[Key("input", i - 1, f)] # ""

\* the attributes by which a stored or read rule is recognised as a declared one
SameRule(read, declared) ==
    /\ read.name = declared.name
    /\ read.action = declared.action
    /\ read.ip_version = declared.ip_version
    /\ read.src_port = declared.src_port
    /\ read.dst_port = declared.dst_port
    /\ read.protocol = declared.protocol
    /\ read.tcp_flags = declared.tcp_flags

\* C9 (as claimed): the rule group at index i of the payload is the i-th
\* declared rule, and a read after a successful create or update, of a remote
\* that stores what is submitted, returns the declared rules in their order.
C9_RuleOrderPreserved ==
    /\ FwApplied =>
          \A i \in 1..FwRuleCount :
              /\ FwPayload[Key("input", i - 1, "name")] = fwConfig.rule[i].name
              /\ FwPayload[Key("input", i - 1, "action")] = fwConfig.rule[i].action
              /\ FwPayload[Key("input", i - 1, "dst_port")] = fwConfig.rule[i].dst_port
    /\ (fwPc = "read" /\ ~HasError(fwDiags)) =>
          /\ Len(fwState.rule) = FwRuleCount
          /\ \A i \in 1..FwRuleCount : SameRule(fwState.rule[i], fwConfig.rule[i])

\* the (rule, address field) pairs a warning is due for
Ipv6AddressPairs ==
    {p \in (1..FwRuleCount) \X {"src_ip", "dst_ip"} :
        fwConfig.rule[p[1]].ip_version = "ipv6" /\ fwConfig.rule[p[1]][p[2]] # ""}

\* C10: the diagnostics of a successful create or update are warnings, exactly
\* one per (rule, address field) with ip_version ipv6 and a non-empty address,
\* naming the rule and the field; a rule set of ipv4 rules only yields none and
\* its fields are the fields of the submitted rule set.
C10_WarningsPerIpv6Address ==
    (FwApplied /\ ~HasError(fwDiags)) =>
        /\ Len(fwDiags) = Cardinality(Ipv6AddressPairs)
        /\ \A d \in DOMAIN fwDiags : fwDiags[d].Severity = "warning"
        /\ \A name \in {fwConfig.rule[i].name : i \in 1..FwRuleCount}, f \in {"src_ip", "dst_ip"} :
              Cardinality({d \in DOMAIN fwDiags :
                              fwDiags[d].Rule = name /\ fwDiags[d].Field = f})
                = Cardinality({p \in Ipv6AddressPairs :
                              fwConfig.rule[p[1]].name = name /\ p[2] = f})
        /\ (\A i \in 1..FwRuleCount : fwConfig.rule[i].ip_version = "ipv4") =>
              /\ fwDiags = << >>
              /\ Len(fwSubmitted.Rules) = FwRuleCount
              /\ \A i \in 1..FwRuleCount :
                    /\ fwSubmitted.Rules[i].Name = fwConfig.rule[i].name
                    /\ fwSubmitted.Rules[i].SrcIP = fwConfig.rule[i].src_ip
                    /\ fwSubmitted.Rules[i].SrcPort = fwConfig.rule[i].src_port
                    /\ fwSubmitted.Rules[i].DstIP = fwConfig.rule[i].dst_ip
                    /\ fwSubmitted.Rules[i].DstPort = fwConfig.rule[i].dst_port
                    /\ fwSubmitted.Rules[i].Protocol = fwConfig.rule[i].protocol
                    /\ fwSubmitted.Rules[i].TCPFlags = fwConfig.rule[i].tcp_flags
                    /\ fwSubmitted.Rules[i].Action = fwConfig.rule[i].action
                    /\ fwSubmitted.Rules[i].IPVersion = fwConfig.rule[i].ip_version

C10_Witness ==
    /\ FwApplied
    /\ ~HasError(fwDiags)
    /\ FwRuleCount = 2
    /\ fwConfig.rule[1].ip_version = "ipv4" /\ fwConfig.rule[1].src_ip # ""
    /\ fwConfig.rule[2].ip_version = "ipv6"
    /\ fwConfig.rule[2].src_ip # "" /\ fwConfig.rule[2].dst_ip # ""
    /\ Len(fwDiags) = 2

(* ------------------- claims: firewall handlers and flags ----------------- *)
Top(field) == Key("top", 0, field)

Flags == {"true", "false"}

\* C11 as written: in every submitted payload both top-level flags, the one
\* for active and the one for whitelisting the trusted services, are "true" or
\* "false".
C11_BothFlagsTrueOrFalse ==
    FwApplied =>
        /\ FwPayload[Top("whitelist_hos")] \in Flags
        /\ FwPayload[Top("status")] \in Flags

\* C11: in every submitted payload whitelist_hos is "true" or "false" as
\* declared, and active is submitted under status as "active" when declared
\* true and "disabled" when declared false.
C11_FlagsEncoded ==
    FwApplied =>
        /\ FwPayload[Top("whitelist_hos")] = (IF fwConfig.whitelist_hos THEN "true" ELSE "false")
        /\ FwPayload[Top("status")] = (IF fwConfig.active THEN "active" ELSE "disabled")
        /\ Top("active") \notin DOMAIN FwPayload

C11_Witness ==
    /\ FwApplied
    /\ fwConfig.active /\ fwConfig.whitelist_hos
    /\ FwPayload[Top("status")] = "active"
    /\ FwPayload[Top("whitelist_hos")] = "true"

\* the payload the create algorithm builds for a configuration
CreatePayload(config) ==
    setFirewallData(HetznerRobotFirewall(config.server_ip, config.whitelist_hos,
        IF config.active THEN "active" ELSE "disabled",
        [i \in 1..Len(config.rule) |-> createRule(config.rule[i])]))

\* C12: every update submits exactly one request, the payload the create
\* algorithm builds for the declared configuration: both flags and one group
\* for every declared rule, also when only a flag differs from the state before.
C12_UpdateSubmitsFullPayload ==
    fwPc = "updated" =>
        /\ Len(fwCalls) = 1
        /\ fwCalls[1].method = "POST"
        /\ FwPayload = CreatePayload(fwConfig)
        /\ {Top("whitelist_hos"), Top("status")} \subseteq DOMAIN FwPayload
        /\ \A i \in 1..FwRuleCount :
              /\ Key("input", i - 1, "name") \in DOMAIN FwPayload
              /\ FwPayload[Key("input", i - 1, "name")] = fwConfig.rule[i].name
        /\ "setFirewall" \notin fwFailed =>
              fwDiags = Flatten([i \in 1..FwRuleCount |-> createWarnings(fwConfig.rule[i])])

\* an update of PriorConfig in which only the active flag was changed
C12_Witness ==
    /\ fwPc = "updated"
    /\ fwConfig = [PriorConfig EXCEPT !.active = FALSE]
    /\ FwPayload[Key("input", 1, "dst_port")] = PriorConfig.rule[2].dst_port
    /\ FwPayload[Top("status")] = "disabled"

\* C13: a create or update issues exactly one request, the apply request; when
\* it fails the handler returns an error and a failed create leaves the
\* identity unset.
C13_OneApplyRequestNoRetry ==
    FwApplied =>
        /\ Len(fwCalls) = 1
        /\ fwCalls[1].method = "POST"
        /\ "setFirewall" \in fwFailed =>
              /\ HasError(fwDiags)
              /\ fwPc = "created" => fwId = ""

C13_Witness ==
    /\ fwPc = "created"
    /\ "setFirewall" \in fwFailed
    /\ fwConfig.server_ip = "192.0.2.2"
    /\ fwId = ""

\* C14: after a create whose apply request succeeded the identity is the
\* declared server_ip, the address the request was sent for.
C14_IdentityAfterCreate ==
    (fwPc = "created" /\ "setFirewall" \notin fwFailed) =>
        /\ fwId = fwConfig.server_ip
        /\ fwId = fwCalls[1].ip

C14_Witness ==
    /\ fwPc = "created"
    /\ "setFirewall" \notin fwFailed
    /\ fwId = "192.0.2.2"

\* C15: a delete issues no request and returns no error, and the remote
\* firewalls after it are the ones before it.
C15_DeleteLeavesRemote ==
    [][fwPc' = "deleted" =>
          /\ fwCalls' = << >>
          /\ fwDiags' = << >>
          /\ fwRemote' = fwRemote]_vars

\* a deleted resource whose remote firewall still holds a declared rule
C15_Witness ==
    /\ fwPc = "deleted"
    /\ fwId \in ServerIPs
    /\ fwRemote[fwId].Rules # << >>
    /\ fwRemote[fwId].Status = "active"

FwWasRead == fwPc \in {"read", "reread"}

\* C16: every read issues exactly one request, the fetch for the identity,
\* and changes nothing remote; when the fetch succeeds the attributes it
\* leaves are the ones the remote firewall has at that moment, also when the
\* remote firewall changed after an earlier read.
C16_ReadFetchesRemote ==
    /\ [](FwWasRead =>
            /\ Len(fwCalls) = 1
            /\ fwCalls[1].method = "GET"
            /\ fwCalls[1].ip = fwId
            /\ "getFirewall" \notin fwFailed =>
                  /\ fwState.active = (fwRemote[fwId].Status = "active")
                  /\ fwState.whitelist_hos = fwRemote[fwId].WhitelistHetznerServices
                  /\ Len(fwState.rule) = Len(fwRemote[fwId].Rules)
                  /\ \A i \in DOMAIN fwState.rule :
                        /\ fwState.rule[i].name = fwRemote[fwId].Rules[i].Name
                        /\ fwState.rule[i].dst_port = fwRemote[fwId].Rules[i].DstPort)
    /\ [][fwPc' \in {"read", "reread"} => fwRemote' = fwRemote]_vars

\* a second read after the remote firewall was disabled behind the provider
C16_Witness ==
    /\ fwPc = "reread"
    /\ "getFirewall" \notin fwFailed
    /\ fwConfig.active
    /\ ~fwState.active
    /\ Len(fwState.rule) = Len(fwConfig.rule) + 1


(* -------------------------------- vSwitch ------------------------------ *)
VsUpdated == vsPc \in {"updated", "updated again"}

\* the server list of the last update changed, and the update got past its
\* name/VLAN call: the membership reconciliation ran
VsReconciled == VsUpdated /\ vsOld # vsConfig.servers /\ "updateVSwitch" \notin vsFailed

VsCallsOf(op) == SelectSeq(vsCalls, LAMBDA c : c.op = op)

VsPositions(op) == {i \in DOMAIN vsCalls : vsCalls[i].op = op}

Numbers(servers) == [i \in DOMAIN servers |-> servers[i].server_number]

SentNumbers(servers) == [i \in DOMAIN servers |-> servers[i].ServerNumber]

Range(s) == {s[i] : i \in DOMAIN s}

\* the members of a (by number) that b lacks, in a's order
Lacking(a, b) == SelectSeq(a, LAMBDA n : n \notin Range(b))

\* the servers a call carries for these numbers: nothing but the number is set
OnlyNumbers(numbers) ==
    [i \in DOMAIN numbers |->
        [ServerNumber |-> numbers[i], ServerIP |-> "", ServerIPv6Net |-> "", Status |-> ""]]

VsOldNumbers == Numbers(vsOld)

VsNewNumbers == Numbers(vsConfig.servers)

\* C2: toAdd is the members of new whose server_number old lacks, in new's
\* order; toRemove is the members of old whose server_number new lacks, in
\* old's order; a number in both lists is in neither output, so lists with the
\* same numbers in any order give two empty outputs.
C2_MembershipDiff ==
    VsReconciled =>
        LET toRemove == SentNumbers(VsCallsOf("removeVSwitchServers")[1].servers)
            toAdd    == SentNumbers(VsCallsOf("addVSwitchServers")[1].servers)
        IN  /\ toAdd = Lacking(VsNewNumbers, VsOldNumbers)
            /\ toRemove = Lacking(VsOldNumbers, VsNewNumbers)
            /\ \A n \in Range(VsOldNumbers) \cap Range(VsNewNumbers) :
                  n \notin Range(toAdd) /\ n \notin Range(toRemove)
            /\ Range(VsOldNumbers) = Range(VsNewNumbers) =>
                  toAdd = << >> /\ toRemove = << >>

C2_Witness ==
    /\ VsReconciled
    /\ VsOldNumbers = << 3, 1, 2 >>
    /\ VsNewNumbers = << 2, 4, 3 >>
    /\ SentNumbers(VsCallsOf("addVSwitchServers")[1].servers) = << 4 >>
    /\ SentNumbers(VsCallsOf("removeVSwitchServers")[1].servers) = << 1 >>

\* C3: in an update whose server list changed there is one remove call and one
\* add call, the remove call strictly before the add call; the remove call
\* carries exactly toRemove and the add call exactly toAdd: for old = [1,2,3]
\* and new = [2,3,4] these are [{1}] and [{4}].
C3_RemoveBeforeAdd ==
    VsReconciled =>
        /\ Cardinality(VsPositions("removeVSwitchServers")) = 1
        /\ Cardinality(VsPositions("addVSwitchServers")) = 1
        /\ \A i \in VsPositions("removeVSwitchServers"), j \in VsPositions("addVSwitchServers") :
              /\ i < j
              /\ vsCalls[i].servers = OnlyNumbers(Lacking(VsOldNumbers, VsNewNumbers))
              /\ vsCalls[j].servers = OnlyNumbers(Lacking(VsNewNumbers, VsOldNumbers))
              /\ (VsOldNumbers = << 1, 2, 3 >> /\ VsNewNumbers = << 2, 3, 4 >>) =>
                    /\ vsCalls[i].servers = << HetznerRobotVSwitchServer(1) >>
                    /\ vsCalls[j].servers = << HetznerRobotVSwitchServer(4) >>

C3_Witness ==
    /\ VsReconciled
    /\ VsOldNumbers = << 1, 2, 3 >>
    /\ VsNewNumbers = << 2, 3, 4 >>
    /\ vsCalls[2] = Call("removeVSwitchServers", NoSettings, << HetznerRobotVSwitchServer(1) >>)
    /\ vsCalls[3] = Call("addVSwitchServers", NoSettings, << HetznerRobotVSwitchServer(4) >>)

\* C4 (as claimed): a failure of the remove call or of the add call is in the
\* diagnostics the update returns, each failure as a diagnostic of its own.
C4_MembershipFailuresReported ==
    VsUpdated =>
        \A op \in {"removeVSwitchServers", "addVSwitchServers"} :
            op \in vsFailed =>
                Cardinality({d \in DOMAIN vsDiags :
                    vsDiags[d].Severity = "error" /\ vsDiags[d].Field = op}) = 1

\* C5: when the remove call fails, the add call is still issued, after it and
\* with the whole of toAdd, and the update ends with its read.
C5_AddAfterFailedRemove ==
    (VsUpdated /\ "removeVSwitchServers" \in vsFailed) =>
        /\ \E i \in VsPositions("removeVSwitchServers"), j \in VsPositions("addVSwitchServers") :
              /\ i < j
              /\ j < Len(vsCalls)
              /\ SentNumbers(vsCalls[j].servers) = Lacking(VsNewNumbers, VsOldNumbers)
        /\ vsCalls[Len(vsCalls)].op = "getVSwitch"

C5_Witness ==
    /\ VsUpdated
    /\ "removeVSwitchServers" \in vsFailed
    /\ VsOldNumbers = << 1 >>
    /\ VsNewNumbers = << 2, 3 >>
    /\ Len(VsCallsOf("addVSwitchServers")) = 1
    /\ SentNumbers(VsCallsOf("addVSwitchServers")[1].servers) = << 2, 3 >>
    /\ vsCalls[Len(vsCalls)].op = "getVSwitch"

\* C6 (as claimed): a declared member list with the same server number twice is
\* rejected with an error before any remote call, so no add call carries a
\* number twice.
C6_DuplicateMembersRejected ==
    VsUpdated =>
        /\ ~IsInjective(VsNewNumbers) => (vsCalls = << >> /\ HasError(vsDiags))
        /\ \A j \in VsPositions("addVSwitchServers") :
              IsInjective(SentNumbers(vsCalls[j].servers))

\* C17: every update issues the name/VLAN call, with the declared name and
\* VLAN, as its first call and only once, also when neither differs from the
\* state; every remove and add call comes after it.
C17_SettingsCallFirst ==
    VsUpdated =>
        /\ Len(vsCalls) >= 1
        /\ vsCalls[1] = Call("updateVSwitch", [name |-> vsConfig.name, vlan |-> vsConfig.vlan], << >>)
        /\ VsPositions("updateVSwitch") = {1}
        /\ \A i \in VsPositions("removeVSwitchServers") \cup VsPositions("addVSwitchServers") :
              i > 1

\* an update that changes members only: name and VLAN are the ones of the state
C17_Witness ==
    /\ vsPc = "updated"
    /\ vsConfig.name = "lan" /\ vsConfig.vlan = 4000
    /\ vsOld # vsConfig.servers
    /\ Len(vsCalls) >= 2
    /\ vsCalls[1].op = "updateVSwitch"
    /\ vsCalls[2].op = "removeVSwitchServers"
    /\ vsCalls[2].servers # << >>

VsSentServers ==
    UNION {Range(vsCalls[i].servers) :
             i \in VsPositions("removeVSwitchServers") \cup VsPositions("addVSwitchServers")}

\* C18: a server number that is in the old and in the new list is sent in no
\* remove or add call, whatever server_ip, server_ipv6_net and status its two
\* elements hold, so lists with the same numbers send nothing; every server
\* sent has its number set and nothing else.
C18_DiffKeyedOnServerNumber ==
    VsReconciled =>
        /\ \A i \in DOMAIN vsOld, j \in DOMAIN vsConfig.servers :
              vsOld[i].server_number = vsConfig.servers[j].server_number =>
                  \A sent \in VsSentServers : sent.ServerNumber # vsOld[i].server_number
        /\ ((\A i \in DOMAIN vsOld : \E j \in DOMAIN vsConfig.servers :
                  vsOld[i].server_number = vsConfig.servers[j].server_number)
            /\ (\A j \in DOMAIN vsConfig.servers : \E i \in DOMAIN vsOld :
                  vsOld[i].server_number = vsConfig.servers[j].server_number))
           => VsSentServers = {}
        /\ \A sent \in VsSentServers :
              sent.ServerIP = "" /\ sent.ServerIPv6Net = "" /\ sent.Status = ""

\* the same two numbers, each with the address and net of the other
C18_Witness ==
    /\ VsReconciled
    /\ vsOld = << RemoteMember(1), RemoteMember(2) >>
    /\ vsConfig.servers = << Member(2, AddressOf[1], Ipv6NetOf[1], "ready"),
                             Member(1, AddressOf[2], Ipv6NetOf[2], "ready") >>
    /\ VsCallsOf("removeVSwitchServers")[1].servers = << >>
    /\ VsCallsOf("addVSwitchServers")[1].servers = << >>

VsMembershipFailed == vsFailed \cap {"removeVSwitchServers", "addVSwitchServers"} # {}

\* C19: an update whose remove or add call failed and whose read succeeded
\* leaves the remote member list in the state; the next update of the same
\* configuration sends in its remove call the members of that list the
\* configuration lacks and in its add call the declared members that list
\* lacks, and when both calls succeed the remote members are the declared ones.
C19_NextUpdateConverges ==
    /\ (VsUpdated /\ VsMembershipFailed /\ vsFailed \cap {"updateVSwitch", "getVSwitch"} = {}) =>
          vsState.servers = vsRemote.servers
    /\ (vsPc = "updated again" /\ "updateVSwitch" \notin vsFailed) =>
          /\ SentNumbers(VsCallsOf("removeVSwitchServers")[1].servers)
                = Lacking(VsOldNumbers, VsNewNumbers)
          /\ SentNumbers(VsCallsOf("addVSwitchServers")[1].servers)
                = Lacking(VsNewNumbers, VsOldNumbers)
          /\ ~VsMembershipFailed =>
                Range(Numbers(vsRemote.servers)) = Range(VsNewNumbers)

\* the second update adds the member whose add call failed in the first
C19_Witness ==
    /\ vsPc = "updated again"
    /\ vsFailed = {}
    /\ VsOldNumbers = << 1 >>
    /\ VsNewNumbers = << 2 >>
    /\ SentNumbers(VsCallsOf("removeVSwitchServers")[1].servers) = << 1 >>
    /\ SentNumbers(VsCallsOf("addVSwitchServers")[1].servers) = << 2 >>
    /\ Numbers(vsRemote.servers) = << 2 >>

(* -------------------------------- client ------------------------------- *)
ApReturned == apPc = "returned"

\* c.client.Do returned a response: the request was sent and answered
ApAnswered == apSent # << >> /\ apTransport.sendOk

ApSucceeded == apResult.err = NoError /\ apResult.body = ResponseBody(apTransport.statusCode)

ApExpected ==
    apTransport.statusCode \in
        {apInput.expectedStatusCodes[i] : i \in DOMAIN apInput.expectedStatusCodes}

\* C20 as written: makeAPICall returns the body with no error iff the request
\* was sent and the status code is in the expected list, returns an error
\* otherwise, one naming the status code when that is unexpected, and it sends
\* the request exactly once.
C20_SuccessIffSentAndExpected ==
    ApReturned =>
        /\ ApSucceeded <=> (ApAnswered /\ ApExpected)
        /\ ~ApSucceeded => apResult.err # NoError
        /\ (ApAnswered /\ ~ApExpected) =>
              /\ apResult.err.text = "hetzner webservice response status"
              /\ apResult.err.code = apTransport.statusCode
        /\ Len(apSent) = 1

\* C20: makeAPICall returns the body with no error iff the request was built,
\* sent and answered, the body was read and the status code is in the expected
\* list (the empty list accepts none); otherwise it returns an error and no
\* body, the error naming the status code when the body was read and the code
\* is unexpected; it sends the request once when it could build it, never twice.
C20_SuccessIffReadAndExpected ==
    ApReturned =>
        /\ ApSucceeded <=> (ApAnswered /\ apTransport.readOk /\ ApExpected)
        /\ ~ApSucceeded => (apResult.err # NoError /\ apResult.body = NoBody)
        /\ apInput.expectedStatusCodes = << >> => ~ApSucceeded
        /\ (ApAnswered /\ apTransport.readOk /\ ~ApExpected) =>
              /\ apResult.err.text = "hetzner webservice response status"
              /\ apResult.err.code = apTransport.statusCode
        /\ Len(apSent) = (IF ParsesAsURL(apInput.uri) THEN 1 ELSE 0)

\* the server answers 202, the second of two expected codes
C20_Witness ==
    /\ ApReturned
    /\ apInput.expectedStatusCodes = << 200, 202 >>
    /\ apTransport.statusCode = 202
    /\ apResult = [body |-> "response", err |-> NoError]
    /\ Len(apSent) = 1

\* C21: every request makeAPICall sends carries the client's username and
\* password as basic authentication; it carries the form content type and the
\* encoded form as body when data is not nil, the empty form included, and no
\* content type and no body when data is nil.
C21_AuthAndFormContentType ==
    ApReturned =>
        \A i \in DOMAIN apSent :
            /\ apSent[i].username = apConfig.username
            /\ apSent[i].password = apConfig.password
            /\ apSent[i].username = apClient.username /\ apSent[i].password = apClient.password
            /\ (apSent[i].contentType = "application/x-www-form-urlencoded")
                  <=> (apInput.data # NilData)
            /\ apInput.data # NilData => apSent[i].body = apInput.data
            /\ apInput.data = NilData => (apSent[i].body = "" /\ apSent[i].contentType = "")

\* a GET that carries a form
C21_Witness ==
    /\ ApReturned
    /\ Len(apSent) = 1
    /\ apInput.method = "GET"
    /\ apInput.data = FormData
    /\ apSent[1].contentType = "application/x-www-form-urlencoded"
    /\ apSent[1].body = FormData
    /\ apSent[1].username = "wronguser" /\ apSent[1].password = "wrongpass"

ApConfigured == apPc # "configure"

ApErrors == {apDiags[i].Field : i \in {j \in DOMAIN apDiags : apDiags[j].Severity = "error"}}

\* C22: providerConfigure returns the nil client and the username error when
\* the username is empty, the nil client and the password error when only the
\* password is empty, and otherwise no error and a client with the configured
\* username, password and url.
C22_ProviderConfigure ==
    ApConfigured =>
        /\ apConfig.username = "" =>
              /\ apClient = NilClient
              /\ ApErrors = {"username is required for Hetzner Robot authentication"}
        /\ (apConfig.username # "" /\ apConfig.password = "") =>
              /\ apClient = NilClient
              /\ ApErrors = {"password is required for Hetzner Robot authentication"}
        /\ (apConfig.username # "" /\ apConfig.password # "") =>
              /\ ApErrors = {}
              /\ apClient.username = apConfig.username
              /\ apClient.password = apConfig.password
              /\ apClient.url = apConfig.url

\* username and password both empty: the username error alone
C22_Witness ==
    /\ ApConfigured
    /\ apConfig.username = "" /\ apConfig.password = ""
    /\ apClient = NilClient
    /\ Len(apDiags) = 1
    /\ apDiags[1].Field = "username is required for Hetzner Robot authentication"

(* ----------------------- firewall: identity and flags ------------------- *)
\* C23 (as claimed): after every create or update whose apply request
\* succeeded, the identity is the server_ip the rule set was submitted to, also
\* when an update declares another server_ip than the identity.
C23_IdentityIsSubmittedAddress ==
    (FwApplied /\ "setFirewall" \notin fwFailed) =>
        /\ fwId = fwSubmitted.IP
        /\ fwId = fwConfig.server_ip

\* C28 (as claimed): active is submitted as status "active" or "disabled", and
\* a read after a successful create or update, of a remote that stores what is
\* submitted, returns active and whitelist_hos as declared, active being true
\* exactly when the remote status is "active".
C28_FlagsRoundTrip ==
    /\ (FwApplied /\ "setFirewall" \notin fwFailed) =>
          /\ fwSubmitted.Status = (IF fwConfig.active THEN "active" ELSE "disabled")
          /\ fwRemote[fwSubmitted.IP].Status = fwSubmitted.Status
          /\ fwRemote[fwSubmitted.IP].WhitelistHetznerServices = fwConfig.whitelist_hos
    /\ (fwPc = "read" /\ "getFirewall" \notin fwFailed) =>
          /\ fwState.active <=> (fwRemote[fwId].Status = "active")
          /\ fwState.active = fwConfig.active
          /\ fwState.whitelist_hos = fwConfig.whitelist_hos

VsUpdateWentOn == VsUpdated /\ "updateVSwitch" \notin vsFailed

VsSent(op) == Range(SentNumbers(VsCallsOf(op)[1].servers))

\* C24: for old and new member lists without a repeated number, the old
\* numbers without the removed ones and with the added ones are the new
\* numbers, and no number is both removed and added.
C24_DiffReachesDeclaredSet ==
    (VsReconciled /\ IsInjective(VsOldNumbers) /\ IsInjective(VsNewNumbers)) =>
        /\ (Range(VsOldNumbers) \ VsSent("removeVSwitchServers"))
              \cup VsSent("addVSwitchServers") = Range(VsNewNumbers)
        /\ VsSent("removeVSwitchServers") \cap VsSent("addVSwitchServers") = {}

C24_Witness ==
    /\ VsReconciled
    /\ VsOldNumbers = << 1, 2, 3 >>
    /\ VsNewNumbers = << 4, 2 >>
    /\ VsSent("removeVSwitchServers") = {1, 3}
    /\ VsSent("addVSwitchServers") = {4}

\* C25: a create issues one call, the create call with the declared name and
\* VLAN and no servers, and no add call; after a create that succeeded the
\* member list in the state is the one the remote returned, not the declared
\* one.
C25_CreateSendsNameAndVlanOnly ==
    vsPc = "created" =>
        /\ vsCalls = << Call("createVSwitch",
                             [name |-> vsConfig.name, vlan |-> vsConfig.vlan], << >>) >>
        /\ VsPositions("addVSwitchServers") = {}
        /\ "createVSwitch" \notin vsFailed =>
              /\ vsState.servers = vsRemote.servers
              /\ vsRemote.servers = << >>

\* two servers are declared and none is in the state after the create
C25_Witness ==
    /\ vsPc = "created"
    /\ vsFailed = {}
    /\ VsNewNumbers = << 1, 2 >>
    /\ vsState.servers = << >>
    /\ vsId # ""

\* C26: an update whose name/VLAN call fails returns an error and issues no
\* other call, neither remove nor add nor read, and leaves the remote vSwitch,
\* its members included, as it was.
C26_UpdateFailureAborts ==
    /\ []((VsUpdated /\ "updateVSwitch" \in vsFailed) =>
            /\ HasError(vsDiags)
            /\ Len(vsCalls) = 1
            /\ vsCalls[1].op = "updateVSwitch")
    /\ [][("updateVSwitch" \in vsFailed') => vsRemote' = vsRemote]_vars

\* a failed update that declared another member list
C26_Witness ==
    /\ vsPc = "updated"
    /\ "updateVSwitch" \in vsFailed
    /\ VsOldNumbers = << 1 >>
    /\ VsNewNumbers = << 2 >>
    /\ Numbers(vsRemote.servers) = << 1 >>

RdSchema == IF rdKind = "vswitch" THEN VSwitchSchema ELSE ServerSchema

\* C29 (as claimed): every key a read handler hands to d.Set is declared in
\* the schema; a vSwitch read that fetched the vSwitch leaves the remote
\* cancellation flag in is_canceled; a server data-source read that fetched the
\* server returns no error and sets the identity to the server number.
C29_ReadWritesDeclaredKeys ==
    rdPc = "read" =>
        /\ \A i \in DOMAIN rdWritten : rdWritten[i] \in RdSchema
        /\ (rdKind = "vswitch" /\ rdFailed = {}) =>
              rdState["is_canceled"] = rdRemote.Canceled
        /\ (rdKind = "server" /\ rdFailed = {}) =>
              /\ ~HasError(rdDiags)
              /\ rdId = Itoa(rdRemote.ServerNumber)

(* --------------------------------- boot -------------------------------- *)
\* C30 (as claimed): a create on a boot resource without identity submits the
\* boot profile for the declared server_id, and after a create that succeeded
\* the identity is not empty and is that server's number.
C30_BootCreateNamesDeclaredServer ==
    btPc = "created" =>
        /\ Len(btCalls) = 1
        /\ btCalls[1].op = "setBootProfile"
        /\ btCalls[1].serverID = Itoa(btConfig.server_id)
        /\ btFailed = {} =>
              /\ btId # ""
              /\ btId = Itoa(btConfig.server_id)

====
